---- MODULE Spec2Model ----
(***************************************************************************)
(* Model of tools/python/bwp_codec.py (class BWPCodec): the BWP detector,  *)
(* decoder, encoder and analysis report, as pure functions over Python     *)
(* values, driven by a caller that applies them to inputs drawn from       *)
(* bounded sets.                                                           *)
(*                                                                         *)
(* A Python str is a sequence of code points (0..1114111), a Python bytes  *)
(* a sequence of octets (0..255).  A value carries its type in "kind", so  *)
(* that a str never equals a bytes, as in Python.  Positions are 1-based   *)
(* here and 0-based in the source: source index i is position i + 1.       *)
(***************************************************************************)
EXTENDS Integers, Sequences, FiniteSets, TLC

\* ------------------------------------------------------------------ bounds
MaxLen == 4         \* longest enumerated text handed to is_bwp/decode/analyze
MaxBytes == 3       \* longest enumerated bytes input
MaxPlain == 2       \* longest enumerated plaintext handed to encode
MaxKeys == 2        \* longest enumerated key list handed to encode
MaxSynthPlain == 1  \* longest enumerated plaintext encoded without keys
MaxDraws == 38      \* values drawn from the random generator in one run
MaxPieces == 4      \* most pieces in a text handed to extract_gwt_info
MaxClassPieces == 6 \* most pieces in a text of class references
MaxVerbPieces == 3  \* most pieces in a text of method candidates
MaxHandlers == 2    \* most /request handlers the threaded server runs at once
LongBody == 18      \* body length of the long inputs (passes i mod 17 = 0)
LongKeys == 12      \* key count of the long inputs (passes i mod 11 = 0)

\* ------------------------------------------------------- program constants
MARKER == 164
MASK == 65535
REPLACEMENT == 65533
PREVIEW == 500

\* ------------------------------------------------------------ Python values
Str(u) == [kind |-> "str", units |-> u]

Bytes(u) == [kind |-> "bytes", units |-> u]

NoKeys == [given |-> FALSE, list |-> <<>>]

KeyList(k) == [given |-> TRUE, list |-> k]

\* s[start:] of Python, for any integer start (negative counts from the end)
SliceFrom(s, start) ==
  LET n == Len(s)
      lo == IF start < 0 THEN (IF n + start < 0 THEN 0 ELSE n + start)
            ELSE (IF start > n THEN n ELSE start)
  IN  [i \in 1..(n - lo) |-> s[lo + i]]

\* s[:stop] of Python for stop >= 0
SliceTo(s, stop) == [i \in 1..(IF stop > Len(s) THEN Len(s) ELSE stop) |-> s[i]]

\* x & 0xFFFF on Python's unbounded integers (two's complement: floor modulo)
Mask16(x) == x % (MASK + 1)

\* ------------------------------------------- bytes.decode("utf-8", "replace")
IsCont(b, i, lo, hi) == i <= Len(b) /\ b[i] >= lo /\ b[i] <= hi

SecondLo(b0) == IF b0 = 224 THEN 160 ELSE IF b0 = 240 THEN 144 ELSE 128

SecondHi(b0) == IF b0 = 237 THEN 159 ELSE IF b0 = 244 THEN 143 ELSE 191

RECURSIVE utf8_from(_, _)
utf8_from(b, p) ==
  IF p > Len(b) THEN <<>>
  ELSE LET b0 == b[p] IN
    IF b0 < 128 THEN <<b0>> \o utf8_from(b, p + 1)
    ELSE IF b0 >= 194 /\ b0 <= 223 THEN
      IF IsCont(b, p + 1, 128, 191)
        THEN <<(b0 - 192) * 64 + (b[p + 1] - 128)>> \o utf8_from(b, p + 2)
        ELSE <<REPLACEMENT>> \o utf8_from(b, p + 1)
    ELSE IF b0 >= 224 /\ b0 <= 239 THEN
      IF ~IsCont(b, p + 1, SecondLo(b0), SecondHi(b0))
        THEN <<REPLACEMENT>> \o utf8_from(b, p + 1)
      ELSE IF ~IsCont(b, p + 2, 128, 191)
        THEN <<REPLACEMENT>> \o utf8_from(b, p + 2)
      ELSE <<(b0 - 224) * 4096 + (b[p + 1] - 128) * 64 + (b[p + 2] - 128)>>
             \o utf8_from(b, p + 3)
    ELSE IF b0 >= 240 /\ b0 <= 244 THEN
      IF ~IsCont(b, p + 1, SecondLo(b0), SecondHi(b0))
        THEN <<REPLACEMENT>> \o utf8_from(b, p + 1)
      ELSE IF ~IsCont(b, p + 2, 128, 191)
        THEN <<REPLACEMENT>> \o utf8_from(b, p + 2)
      ELSE IF ~IsCont(b, p + 3, 128, 191)
        THEN <<REPLACEMENT>> \o utf8_from(b, p + 3)
      ELSE <<(b0 - 240) * 262144 + (b[p + 1] - 128) * 4096
               + (b[p + 2] - 128) * 64 + (b[p + 3] - 128)>>
             \o utf8_from(b, p + 4)
    ELSE <<REPLACEMENT>> \o utf8_from(b, p + 1)

utf8_decode(b) == utf8_from(b, 1)

\* the str that decode and analyze work on (lines 63-64 and 158-159)
as_text(data) ==
  IF data.kind = "bytes" THEN Str(utf8_decode(data.units)) ELSE data

\* ------------------------------------------------------------------ is_bwp
\* variant: detects on the converted text, as analyze does
is_bwp_as_text(data) ==
  Len(as_text(data).units) > 0 /\ as_text(data).units[1] = MARKER

\* variant: the marker is looked for at index 1
is_bwp_second(data) == Len(data.units) > 1 /\ data.units[2] = MARKER

is_bwp(data) == Len(data.units) > 0 /\ data.units[1] = MARKER

\* ------------------------------------------------------------------ decode
Fault(name) ==
  [fault |-> name, raw |-> Str(<<>>), is_encoded |-> FALSE, keys |-> <<>>,
   decoded |-> Str(<<>>), header_length |-> 0]

BWPMessage(raw, is_encoded, ks, decoded, header_length) ==
  [fault |-> "none", raw |-> raw, is_encoded |-> is_encoded, keys |-> ks,
   decoded |-> decoded, header_length |-> header_length]

\* variant: the position skew (i % 11) is left out
decode_keys_noskew(t, key_count) == [i \in 1..key_count |-> t[2 + i] - 48]

\* variant: the position skew is not reduced modulo 11
decode_keys_nomod(t, key_count) ==
  [i \in 1..key_count |-> t[2 + i] - 48 - (i - 1)]

\* the key table read from the header (lines 83-86)
decode_keys(t, key_count) ==
  [i \in 1..key_count |-> t[2 + i] - 48 - ((i - 1) % 11)]

\* variant: the result is not masked to 16 bits
decode_body_unmasked(body, ks) ==
  [i \in 1..Len(body) |->
     body[i] - ks[((i - 1) % Len(ks)) + 1] + ((i - 1) % 17)]

\* variant: the loop stops one unit early
decode_body_short(body, ks) ==
  [i \in 1..(Len(body) - 1) |->
     Mask16(body[i] - ks[((i - 1) % Len(ks)) + 1] + ((i - 1) % 17))]

\* the body transform (lines 95-100); ks is non-empty when body is
decode_body(body, ks) ==
  [i \in 1..Len(body) |->
     Mask16(body[i] - ks[((i - 1) % Len(ks)) + 1] + ((i - 1) % 17))]

\* variant: only the empty text passes through
not_bwp_empty_only(t) == Len(t) = 0

\* the pass-through test of line 67 on the text's code points
not_bwp(t) == Len(t) = 0 \/ t[1] # MARKER

\* variant: the count unit is not counted
header_len_short(key_count) == 1 + key_count

\* line 92
header_len(key_count) == 2 + key_count

\* variant: a body is left as it is when the key table is empty
decode_marked_guarded(text) ==
  LET t == text.units IN
  IF Len(t) < 2
    THEN Fault("IndexError")
  ELSE
    LET key_count == t[2] - 48 IN
    IF key_count > 0 /\ Len(t) < 2 + key_count
      THEN Fault("IndexError")
    ELSE
      LET ks == decode_keys(t, key_count)
          header_length == header_len(key_count)
          body == SliceFrom(t, header_length)
      IN  IF Len(body) > 0 /\ Len(ks) = 0
            THEN BWPMessage(text, TRUE, ks, Str(body), header_length)
          ELSE BWPMessage(text, TRUE, ks, Str(decode_body(body, ks)),
                          header_length)

\* lines 76-110: text starts with the marker
decode_marked(text) ==
  LET t == text.units IN
  IF Len(t) < 2
    THEN Fault("IndexError")
  ELSE
    LET key_count == t[2] - 48 IN
    IF key_count > 0 /\ Len(t) < 2 + key_count
      THEN Fault("IndexError")
    ELSE
      LET ks == decode_keys(t, key_count)
          header_length == header_len(key_count)
          body == SliceFrom(t, header_length)
      IN  IF Len(body) > 0 /\ Len(ks) = 0
            THEN Fault("ZeroDivisionError")
          ELSE BWPMessage(text, TRUE, ks, Str(decode_body(body, ks)),
                          header_length)

decode(data) ==
  LET text == as_text(data)
  IN  IF not_bwp(text.units)
        THEN BWPMessage(text, FALSE, <<>>, text, 0)
        ELSE decode_marked(text)

\* ------------------------------------------------------------------ encode
Returned(v) == [fault |-> "none", value |-> v]

Raised(name) == [fault |-> name, value |-> Str(<<>>)]

\* variant: the header units are not masked to 16 bits
encode_header_unmasked(ks) ==
  <<MARKER, 48 + Len(ks)>>
    \o [i \in 1..Len(ks) |-> 48 + ks[i] + ((i - 1) % 11)]

\* count unit and key units of the header (lines 140-145)
encode_header(ks) ==
  <<MARKER, Mask16(48 + Len(ks))>>
    \o [i \in 1..Len(ks) |-> Mask16(48 + ks[i] + ((i - 1) % 11))]

\* variant: the position skew (i % 17) is added instead of subtracted
encode_body_plus(d, ks) ==
  [i \in 1..Len(d) |->
     Mask16(d[i] + ks[((i - 1) % Len(ks)) + 1] + ((i - 1) % 17))]

\* the body transform (lines 148-152); ks is non-empty
encode_body(d, ks) ==
  [i \in 1..Len(d) |->
     Mask16(d[i] + ks[((i - 1) % Len(ks)) + 1] - ((i - 1) % 17))]

\* variant: the header is written for the empty input too
encode_unguarded(data, ks) ==
  IF Len(ks) = 0 THEN Raised("ZeroDivisionError")
  ELSE Returned(Str(encode_header(ks) \o encode_body(data.units, ks)))

\* encode with the key list in hand (lines 123-124 and 134-154)
encode(data, ks) ==
  IF Len(data.units) = 0 THEN Returned(data)
  ELSE IF Len(ks) = 0 THEN Raised("ZeroDivisionError")
  ELSE Returned(Str(encode_header(ks) \o encode_body(data.units, ks)))

\* variant: random.randint(3, 37)
SynthCounts_from3 == 3..37

\* the outcomes of random.randint(4, 37) (line 128)
SynthCounts == 4..37

\* variant: random.randint(0, 15)
SynthKeyRange_to15 == 0..15

\* the outcomes of random.randint(0, 14) (line 129)
SynthKeyRange == 0..14

\* key lists the generator can produce (lines 128-129): every count, with
\* every value at every position (the constant lists) and a mixed list
SynthOutcomes ==
  {[i \in 1..n |-> k] : n \in SynthCounts, k \in SynthKeyRange}
    \cup {[i \in 1..n |-> (7 * i) % Cardinality(SynthKeyRange)] : n \in SynthCounts}

\* values taken from the module-level generator of random by one call of
\* encode (lines 123-129): none for an empty input or supplied keys
draws(data, kw, drawn) ==
  IF Len(data.units) = 0 \/ kw.given THEN 0 ELSE 1 + Len(drawn)

\* encode(data, keys=None | list) with the generator's outcome (lines 112-154)
encode_opt(data, kw, drawn) ==
  encode(data, IF kw.given THEN kw.list ELSE drawn)

\* ----------------------------------------------------------------- analyze
\* variant: "except IndexError"
CaughtIndexOnly(fault) == fault = "IndexError"

\* "except Exception" (line 176) catches both faults decode can raise
CaughtByExcept(fault) == fault \in {"IndexError", "ZeroDivisionError"}

\* variant: every report carries a decode_success flag
Report_flagged(fields) ==
  [raised |-> "none",
   fields |-> [k \in DOMAIN fields \cup {"decode_success"} |->
                 IF k \in DOMAIN fields THEN fields[k] ELSE FALSE]]

\* the dict analyze returns (lines 161-180)
Report(fields) == [raised |-> "none", fields |-> fields]

\* variant: only the key table is taken off the length
body_length_keys_only(n, m) == n - Len(m.keys)

\* line 172
body_length(n, m) == n - m.header_length

analyze(data) ==
  LET text == as_text(data)
      n == Len(text.units)
      msg == decode(text)
  IN  IF ~is_bwp(text)
        THEN Report([is_bwp |-> FALSE, length |-> n])
      ELSE IF msg.fault = "none"
        THEN Report([is_bwp |-> TRUE, length |-> n,
                     key_count |-> Len(msg.keys), keys |-> msg.keys,
                     header_length |-> msg.header_length,
                     body_length |-> body_length(n, msg),
                     decoded_length |-> Len(msg.decoded.units),
                     decoded_preview |-> SliceTo(msg.decoded.units, PREVIEW),
                     decode_success |-> TRUE])
      ELSE IF CaughtByExcept(msg.fault)
        THEN Report([is_bwp |-> TRUE, length |-> n,
                     decode_error |-> msg.fault, decode_success |-> FALSE])
      ELSE [raised |-> msg.fault, fields |-> [is_bwp |-> TRUE, length |-> n]]

\* ------------------------------------- analyze_decoded.extract_gwt_info
\* Texts are sequences of code points; the string constants of the source
\* are spelled out as code points, with the string in the comment.
QUOTE == 34

\* position of the first quote of t at or after p, or 0
RECURSIVE next_quote(_, _)
next_quote(t, p) ==
  IF p > Len(t) THEN 0
  ELSE IF t[p] = QUOTE THEN p
  ELSE next_quote(t, p + 1)

\* variant: literals need at least one character, as with r'"([^"]+)"'
RECURSIVE findall_quoted_nonempty(_, _)
findall_quoted_nonempty(t, p) ==
  LET open == next_quote(t, p) IN
  IF open = 0 THEN <<>>
  ELSE LET close == next_quote(t, open + 1) IN
       IF close = 0 THEN <<>>
       ELSE IF close = open + 1 THEN findall_quoted_nonempty(t, close)
       ELSE <<[i \in 1..(close - open - 1) |-> t[open + i]]>>
              \o findall_quoted_nonempty(t, close + 1)

\* re.findall(r'"([^"]*)"', t) from position p on (line 24): the text between
\* a quote and the next quote, then on after the closing quote
RECURSIVE findall_quoted(_, _)
findall_quoted(t, p) ==
  LET open == next_quote(t, p) IN
  IF open = 0 THEN <<>>
  ELSE LET close == next_quote(t, open + 1) IN
       IF close = 0 THEN <<>>
       ELSE <<[i \in 1..(close - open - 1) |-> t[open + i]]>>
              \o findall_quoted(t, close + 1)

\* s.startswith(prefix)
StartsWith(s, prefix) ==
  Len(s) >= Len(prefix) /\ \A i \in 1..Len(prefix) : s[i] = prefix[i]

\* sub in s
Contains(s, sub) ==
  \E k \in 0..(Len(s) - Len(sub)) : \A i \in 1..Len(sub) : s[k + i] = sub[i]

\* s.lower() on ASCII text
Lower(s) ==
  [i \in 1..Len(s) |-> IF s[i] >= 65 /\ s[i] <= 90 THEN s[i] + 32 ELSE s[i]]

\* "Service"
STR_Service == <<83, 101, 114, 118, 105, 99, 101>>

\* "com.bodet"
STR_com_bodet == <<99, 111, 109, 46, 98, 111, 100, 101, 116>>

\* "get", "load", "find", "save", "connect", "subscribe", "init",
\* "recherche", "charger", "lire" (lines 34-43)
MethodPrefixes ==
  {<<103, 101, 116>>,
   <<108, 111, 97, 100>>,
   <<102, 105, 110, 100>>,
   <<115, 97, 118, 101>>,
   <<99, 111, 110, 110, 101, 99, 116>>,
   <<115, 117, 98, 115, 99, 114, 105, 98, 101>>,
   <<105, 110, 105, 116>>,
   <<114, 101, 99, 104, 101, 114, 99, 104, 101>>,
   <<99, 104, 97, 114, 103, 101, 114>>,
   <<108, 105, 114, 101>>}

\* "date", "jour", "heure", "time", "period" (line 54)
DateKeywords ==
  {<<100, 97, 116, 101>>,
   <<106, 111, 117, 114>>,
   <<104, 101, 117, 114, 101>>,
   <<116, 105, 109, 101>>,
   <<112, 101, 114, 105, 111, 100>>}

\* variant: the service must be of the vendor package as well
IsService_vendor(s) == Contains(s, STR_Service) /\ StartsWith(s, STR_com_bodet)

\* line 27
IsService(s) == Contains(s, STR_Service)

\* lines 33-44
IsMethod(s) == Len(s) > 0 /\ \E prefix \in MethodPrefixes : StartsWith(s, prefix)

\* line 49
IsClass(s) == StartsWith(s, STR_com_bodet)

\* line 54
IsDateRelated(s) == \E x \in DateKeywords : Contains(Lower(s), x)

\* variant: every class reference is kept
KeepClasses_all(classes) == classes

\* classes[:5] (line 51)
KeepClasses(classes) == SliceTo(classes, 5)

\* variant: the last match wins
LastMatch(matches) == matches[Len(matches)]

\* services[0], methods[0] (lines 29 and 46)
FirstMatch(matches) == matches[1]

\* variant: the list is indexed without the test
Truthy_always(list) == TRUE

\* "if services:", "if methods:", "if classes:", "if dates:" (lines 28, 45,
\* 50, 55): a list is true when it is not empty
Truthy(list) == list # <<>>

\* the dict of extract_gwt_info: "has" holds the keys that are present; a
\* field whose key is absent is the empty sequence here; "raised" names the
\* exception that left the function instead of a dict, "none" when it
\* returned
NoInfo ==
  [raised |-> "none", has |-> {}, service |-> <<>>, method |-> <<>>,
   classes |-> <<>>, date_related |-> <<>>, all_strings |-> <<>>]

\* lines 14-61
extract_gwt_info(decoded) ==
  IF Len(decoded) = 0 THEN NoInfo
  ELSE
    LET strings == findall_quoted(decoded, 1)
        services == SelectSeq(strings, IsService)
        methods == SelectSeq(strings, IsMethod)
        classes == SelectSeq(strings, IsClass)
        dates == SelectSeq(strings, IsDateRelated)
    IN  \* services[0] and methods[0] raise IndexError on an empty list
        IF \/ Truthy(services) /\ services = <<>>
           \/ Truthy(methods) /\ methods = <<>>
          THEN [NoInfo EXCEPT !.raised = "IndexError"]
        ELSE
        [raised |-> "none",
         has |-> {"all_strings"}
                   \cup (IF Truthy(services) THEN {"service"} ELSE {})
                   \cup (IF Truthy(methods) THEN {"method"} ELSE {})
                   \cup (IF Truthy(classes) THEN {"classes"} ELSE {})
                   \cup (IF Truthy(dates) THEN {"date_related"} ELSE {}),
         service |-> IF Truthy(services) THEN FirstMatch(services) ELSE <<>>,
         method |-> IF Truthy(methods) THEN FirstMatch(methods) ELSE <<>>,
         classes |-> IF Truthy(classes) THEN KeepClasses(classes) ELSE <<>>,
         date_related |-> IF Truthy(dates) THEN dates ELSE <<>>,
         all_strings |-> strings]

\* ------------------------------------------ har_analyzer.extract_gwt_info
\* "com."
STR_com == <<99, 111, 109, 46>>

\* "java."
STR_java == <<106, 97, 118, 97, 46>>

\* len(s) < 30 (line 52)
METHOD_LEN == 30

\* "get", "set", "load", "save", "find", "connect", "subscribe", "init",
\* "recherche", "charger", "lire", "entree", "sortie" (lines 54-57)
HarMethodPrefixes ==
  {<<103, 101, 116>>,
   <<115, 101, 116>>,
   <<108, 111, 97, 100>>,
   <<115, 97, 118, 101>>,
   <<102, 105, 110, 100>>,
   <<99, 111, 110, 110, 101, 99, 116>>,
   <<115, 117, 98, 115, 99, 114, 105, 98, 101>>,
   <<105, 110, 105, 116>>,
   <<114, 101, 99, 104, 101, 114, 99, 104, 101>>,
   <<99, 104, 97, 114, 103, 101, 114>>,
   <<108, 105, 114, 101>>,
   <<101, 110, 116, 114, 101, 101>>,
   <<115, 111, 114, 116, 105, 101>>}

\* Optional[str]: None, or a string
None == [some |-> FALSE, value |-> <<>>]

Some(s) == [some |-> TRUE, value |-> s]

\* line 49
IsHarService(s) == Contains(s, STR_Service) /\ StartsWith(s, STR_com_bodet)

\* lines 52-57, reached when line 49 is false
IsHarMethod(s) ==
  /\ Len(s) > 0
  /\ Len(s) < METHOD_LEN
  /\ ~StartsWith(s, STR_com)
  /\ ~StartsWith(s, STR_java)
  /\ \E prefix \in HarMethodPrefixes : StartsWith(s, prefix)

\* the loop of lines 48-59 from literal i on; service and method are what
\* the earlier rounds have assigned
RECURSIVE har_loop(_, _, _, _)
har_loop(strings, i, service, method) ==
  IF i > Len(strings) THEN [service |-> service, method |-> method]
  ELSE IF IsHarService(strings[i])
    THEN har_loop(strings, i + 1, Some(strings[i]), method)
  ELSE IF IsHarMethod(strings[i])
    THEN har_loop(strings, i + 1, service, Some(strings[i]))
  ELSE har_loop(strings, i + 1, service, method)

\* the tuple (service, method) of har_analyzer.extract_gwt_info (lines 37-61)
NoPair == [service |-> None, method |-> None]

har_extract_gwt_info(decoded) ==
  IF Len(decoded) = 0 THEN NoPair
  ELSE har_loop(findall_quoted(decoded, 1), 1, None, None)

\* ------------------------------------------- curl_proxy.py: values
\* Python values of the request fields, by type and content
PyNone == [type |-> "NoneType", value |-> ""]

PyStr(v) == [type |-> "str", value |-> v]

PyInt(v) == [type |-> "int", value |-> v]

\* "if body_base64:", "if cookies:" (lines 59, 71): None and "" are false
IsTrue(v) == v.type # "NoneType" /\ v.value # ""

\* what execute_request has when it stops: the dict it returns, or the
\* exception that leaves it
Returns(d) == [raised |-> "none", dict |-> d]

Propagates(e) == [raised |-> e, dict |-> [status_code |-> 0]]

NoResult == [raised |-> "unset", dict |-> [status_code |-> 0]]

\* base64.b64decode(v).decode("utf-8") (line 60) on the sample bodies:
\* "dGVzdA==" is "test", "abc" has incorrect padding, "/w==" is the octet
\* 0xFF, which is not UTF-8; a value that is not a str or bytes is a
\* TypeError
b64_utf8(v) ==
  IF v.type # "str" THEN Propagates("TypeError")
  ELSE IF v.value = "dGVzdA==" THEN Returns(PyStr("test"))
  ELSE IF v.value = "abc" THEN Propagates("binascii.Error")
  ELSE IF v.value = "/w==" THEN Propagates("UnicodeDecodeError")
  ELSE Returns(PyStr(""))

\* the exceptions the steps of execute_request raise here; all of them are
\* subclasses of Exception
ExceptionClasses ==
  {"TypeError", "binascii.Error", "UnicodeDecodeError", "AttributeError",
   "RequestsError"}

\* variant: "except requests.RequestsError"
ExceptRequestsOnly(e) == e = "RequestsError"

\* "except Exception as e" (line 125)
ExceptException(e) == e \in ExceptionClasses

\* the dict of lines 126-131; the message is str(e), named by its exception
error_result(e) ==
  [status_code |-> -1, body |-> "", error |-> e, headers |-> {}]

\* the responses the remote side gives: a dict of headers is a set of
\* <<name, value>> pairs, cookies is the names of response.cookies
Responses ==
  {[status_code |-> 200, text |-> "ok",
    headers |-> {<<"Content-Type", "text/plain">>}, cookies |-> {}],
   [status_code |-> 302, text |-> "",
    headers |-> {<<"Location", "/open">>, <<"Set-Cookie", "sid=1; HttpOnly">>},
    cookies |-> {"sid"}]}

NoResponse ==
  [status_code |-> 0, text |-> "", headers |-> {}, cookies |-> {}]

\* response_headers[name] = value (lines 93, 115)
SetItem(headers, name, value) ==
  {h \in headers : h[1] # name} \cup {<<name, value>>}

\* lines 97-118: the cookies of the response, then those of the session that
\* no collected string names, joined into Set-Cookie; the one cookie here is
\* sid=1; failed: an exception inside this block, which line 117 swallows
with_cookies(headers, response_cookies, session_cookies, failed) ==
  IF failed THEN headers
  ELSE IF response_cookies \cup session_cookies # {}
    THEN SetItem(headers, "Set-Cookie", "sid=1; Path=/open")
  ELSE headers

\* lines 119-123
ok_result(response, headers) ==
  [status_code |-> response.status_code, body |-> response.text,
   headers |-> headers]

\* the locals of one call of execute_request that a later step reads:
\* method and session until the request is made, response from then on;
\* exc is the exception raised inside the try block, "none" without one
Frame(method, use_global_session, session, response, exc) ==
  [method |-> method, use_global_session |-> use_global_session,
   session |-> session, response |-> response, exc |-> exc]

NoFrame == Frame(PyNone, FALSE, 0, NoResponse, "none")

\* the callers of execute_request: 0 is main() (or a direct call) without the
\* global session, 1..MaxHandlers are the server's /request handler threads
Handlers == 1..MaxHandlers

Callers == {0} \cup Handlers

\* a session that is not the global one (line 69)
LOCAL_SESSION == -1

\* ------------------------------------------------------------------ inputs
RECURSIVE SeqsUpTo(_, _)
SeqsUpTo(S, n) ==
  IF n = 0 THEN {<<>>}
  ELSE LET shorter == SeqsUpTo(S, n - 1)
       IN  shorter \cup {Append(s, x) : s \in {t \in shorter : Len(t) = n - 1}, x \in S}

\* code points that steer decode: '/', '0', '1', '2' as key count and key
\* units, 't', the marker, the last 16-bit unit and the first code point
\* beyond 16 bits
TextUnits == {47, 48, 49, 50, 116, MARKER, MASK, MASK + 1}

\* octets: '0', '1', 't', the marker octet, the lead and continuation octets
\* of the marker's UTF-8 form (C2 A4) and of a 3-octet form (E2 82 AC)
ByteUnits == {48, 49, 116, 130, MARKER, 194, 226}

PlainUnits == {0, 116, MASK, MASK + 1}

\* keys around the ends of the range one 16-bit header unit can carry
KeyValues == {-49, -48, 0, 5, 14, 65487, 65488}

\* test_decode_structure: marker, '1', chr(48), "test"
Scenario1 == <<MARKER, 49, 48, 116, 101, 115, 116>>

\* spec scenario 4: marker, chr(48 + 5), "ab"
Scenario4 == <<MARKER, 53, 97, 98>>

LongKeyList == [i \in 1..LongKeys |-> (7 * i) % 15]

LongPlainText == [i \in 1..LongBody |-> IF i % 2 = 0 THEN 34 ELSE 100 + i]

\* a long captured message: header of LongKeys keys and LongBody body units
LongMessage ==
  <<MARKER, 48 + LongKeys>>
    \o [i \in 1..LongKeys |-> 48 + ((3 * i) % 15) + ((i - 1) % 11)]
    \o [i \in 1..LongBody |-> 40 + i]

\* the shortest key list whose count unit wraps: 48 + N = 65536
WrapCount == MASK + 1 - 48

WrapKeyList == [i \in 1..WrapCount |-> 0]

TextInputs ==
  {Str(u) : u \in SeqsUpTo(TextUnits, MaxLen) \cup {Scenario1, Scenario4, LongMessage}}

BytesInputs == {Bytes(u) : u \in SeqsUpTo(ByteUnits, MaxBytes)}

Inputs == TextInputs \cup BytesInputs

EncodeCalls ==
  ({Str(u) : u \in SeqsUpTo(PlainUnits, MaxPlain)} \cup {Str(LongPlainText)})
    \X (SeqsUpTo(KeyValues, MaxKeys) \cup {LongKeyList})

WrapEncodeCalls == {<<Str(<<116>>), WrapKeyList>>}

\* ------------------------------------------------------------------- state
\* rng: how many values the process has drawn from random's module-level
\* generator, which is the part of its state that encode can change
\* info: the dict returned by analyze_decoded.extract_gwt_info
\* found: the tuple returned by har_analyzer.extract_gwt_info
\* mode: "init" before main() has chosen, then "server" or "cli"
\* global_session: _global_session, 0 for None, else the session's number
\* sessions: how many sessions get_or_create_session has created
\* jar: the numbers of the sessions that hold cookies
\* tpc, frame, result: per caller of execute_request, its position, its
\* locals and what the call ended with
VARIABLES pc, data, keys, out, msg, detected, report, rng, info, found,
          mode, global_session, sessions, jar, tpc, frame, result

bridge == <<mode, global_session, sessions, jar, tpc, frame, result>>

vars == <<pc, data, keys, out, msg, detected, report, rng, info, found,
          mode, global_session, sessions, jar, tpc, frame, result>>

NoMessage == Fault("unset")

NoOutput == Raised("unset")

NoReport == [raised |-> "unset", fields |-> [is_bwp |-> FALSE, length |-> 0]]

Init ==
  /\ pc = "idle"
  /\ data = Str(<<>>)
  /\ keys = NoKeys
  /\ out = NoOutput
  /\ msg = NoMessage
  /\ detected = FALSE
  /\ report = NoReport
  /\ rng = 0
  /\ info = NoInfo
  /\ found = NoPair
  /\ mode = "init"
  /\ global_session = 0
  /\ sessions = 0
  /\ jar = {}
  /\ tpc = [c \in Callers |-> "idle"]
  /\ frame = [c \in Callers |-> NoFrame]
  /\ result = [c \in Callers |-> NoResult]

\* codec.is_bwp(d)
CallIsBwp(d) ==
  /\ pc = "idle"
  /\ pc' = "is_bwp"
  /\ data' = d
  /\ detected' = is_bwp(d)
  /\ keys' = NoKeys /\ out' = NoOutput /\ msg' = NoMessage /\ report' = NoReport
  /\ UNCHANGED <<rng, info, found>>
  /\ UNCHANGED bridge

\* codec.decode(d)
CallDecode(d) ==
  /\ pc = "idle"
  /\ pc' = "decode"
  /\ data' = d
  /\ msg' = decode(d)
  /\ keys' = NoKeys /\ out' = NoOutput /\ detected' = FALSE /\ report' = NoReport
  /\ UNCHANGED <<rng, info, found>>
  /\ UNCHANGED bridge

\* codec.analyze(d)
CallAnalyze(d) ==
  /\ pc = "idle"
  /\ pc' = "analyze"
  /\ data' = d
  /\ report' = analyze(d)
  /\ keys' = NoKeys /\ out' = NoOutput /\ msg' = NoMessage /\ detected' = FALSE
  /\ UNCHANGED <<rng, info, found>>
  /\ UNCHANGED bridge

\* codec.encode(d, k) with a supplied key list
CallEncode(d, k) ==
  /\ pc = "idle"
  /\ pc' = "encode"
  /\ data' = d
  /\ keys' = KeyList(k)
  /\ out' = encode_opt(d, KeyList(k), <<>>)
  /\ rng' = rng + draws(d, KeyList(k), <<>>)
  /\ msg' = NoMessage /\ detected' = FALSE /\ report' = NoReport
  /\ UNCHANGED <<info, found>>
  /\ UNCHANGED bridge

\* codec.encode(d) with the keys omitted; drawn is what the generator yields
CallEncodeSynth(d, drawn) ==
  /\ pc = "idle"
  /\ rng + draws(d, NoKeys, drawn) <= MaxDraws
  /\ pc' = "encode"
  /\ data' = d
  /\ keys' = NoKeys
  /\ out' = encode_opt(d, NoKeys, drawn)
  /\ rng' = rng + draws(d, NoKeys, drawn)
  /\ msg' = NoMessage /\ detected' = FALSE /\ report' = NoReport
  /\ UNCHANGED <<info, found>>
  /\ UNCHANGED bridge

\* codec.decode(encoded) of test_encode_decode_roundtrip
DecodeEncoded ==
  /\ pc = "encode"
  /\ out.fault = "none"
  /\ pc' = "roundtrip"
  /\ msg' = decode(out.value)
  /\ UNCHANGED <<data, keys, out, detected, report, rng, info, found>>
  /\ UNCHANGED bridge

\* codec.encode(msg.decoded, msg.keys) of main and test_real_roundtrip, which
\* run on samples that start with the marker
ReEncode ==
  /\ pc = "decode"
  /\ data.kind = "str"
  /\ is_bwp(data)
  /\ msg.fault = "none"
  /\ pc' = "reencode"
  /\ keys' = KeyList(msg.keys)
  /\ out' = encode(msg.decoded, msg.keys)
  /\ UNCHANGED <<data, msg, detected, report, info, found>>
  /\ UNCHANGED bridge
  /\ rng' = rng + draws(msg.decoded, KeyList(msg.keys), <<>>)

\* the caller drops the results; the codec is ready for the next call
Return ==
  /\ pc # "idle"
  /\ pc' = "idle"
  /\ data' = Str(<<>>)
  /\ keys' = NoKeys /\ out' = NoOutput /\ msg' = NoMessage
  /\ detected' = FALSE /\ report' = NoReport
  /\ info' = NoInfo
  /\ found' = NoPair
  /\ UNCHANGED rng
  /\ UNCHANGED bridge

\* a call starts when the caller holds no result; its arguments are chosen
\* then
IsBwpCall == pc = "idle" /\ \E d \in Inputs : CallIsBwp(d)

DecodeCall == pc = "idle" /\ \E d \in Inputs : CallDecode(d)

AnalyzeCall == pc = "idle" /\ \E d \in Inputs : CallAnalyze(d)

EncodeCall == pc = "idle" /\ \E c \in EncodeCalls : CallEncode(c[1], c[2])

EncodeWrapCall ==
  pc = "idle" /\ \E c \in WrapEncodeCalls : CallEncode(c[1], c[2])

Next ==
  \/ IsBwpCall
  \/ DecodeCall
  \/ AnalyzeCall
  \/ EncodeCall
  \/ DecodeEncoded
  \/ ReEncode
  \/ Return
  \/ EncodeWrapCall

Spec == Init /\ [][Next]_vars

\* ---------------------------------------------- encode with the keys omitted
SynthUnits == {116, MASK, MASK + 1}

SynthPlainInputs ==
  {Str(u) : u \in SeqsUpTo(SynthUnits, MaxSynthPlain)} \cup {Str(LongPlainText)}

\* the keys of test_encode_decode_roundtrip, and the empty list
GivenKeyLists == {<<>>, <<5, 10, 3, 7>>}

EncodeSynthCall ==
  pc = "idle" /\ \E d \in SynthPlainInputs, k \in SynthOutcomes :
                   CallEncodeSynth(d, k)

EncodeGivenCall ==
  pc = "idle" /\ \E d \in SynthPlainInputs, k \in GivenKeyLists :
                   CallEncode(d, k)

NextSynth ==
  \/ EncodeSynthCall
  \/ EncodeGivenCall
  \/ DecodeEncoded
  \/ Return

\* a caller that encodes with and without keys and decodes the outputs
SpecSynth == Init /\ [][NextSynth]_vars

\* ------------------------------------------------- extract_gwt_info calls
\* "com.bodet.time.DeclarationService"
LIT_Service == <<99, 111, 109, 46, 98, 111, 100, 101, 116, 46, 116, 105, 109, 101, 46, 68, 101, 99, 108, 97, 114, 97, 116, 105, 111, 110, 83, 101, 114, 118, 105, 99, 101>>

\* "getDeclaration"
LIT_Method == <<103, 101, 116, 68, 101, 99, 108, 97, 114, 97, 116, 105, 111, 110>>

\* "2024-01-01"
LIT_Date == <<50, 48, 50, 52, 45, 48, 49, 45, 48, 49>>

Quoted(s) == <<QUOTE>> \o s \o <<QUOTE>>

\* what a decoded GWT-RPC text is put together from: the three literals of
\* the scenario, "java.util.List", "loadOtherService", "dateDebut", the empty
\* literal, the number 7 and a quote without a partner
Pieces ==
  {Quoted(LIT_Service), Quoted(LIT_Method), Quoted(LIT_Date),
   Quoted(<<106, 97, 118, 97, 46, 117, 116, 105, 108, 46, 76, 105, 115, 116>>),
   Quoted(<<108, 111, 97, 100, 79, 116, 104, 101, 114, 83, 101, 114, 118, 105, 99, 101>>),
   Quoted(<<100, 97, 116, 101, 68, 101, 98, 117, 116>>),
   Quoted(<<>>), <<55>>, <<QUOTE>>}

\* the pieces separated by commas
RECURSIVE JoinPieces(_)
JoinPieces(ps) ==
  IF Len(ps) = 0 THEN <<>>
  ELSE IF Len(ps) = 1 THEN ps[1]
  ELSE ps[1] \o <<44>> \o JoinPieces(Tail(ps))

\* "com.bodet.Bean"
LIT_Bean == <<99, 111, 109, 46, 98, 111, 100, 101, 116, 46, 66, 101, 97, 110>>

\* texts of class references, more of them than the 5 that are kept: two
\* literals of the vendor package and a number
ClassPieces == {Quoted(LIT_Service), Quoted(LIT_Bean), <<55>>}

\* "setValue"
LIT_Set == <<115, 101, 116, 86, 97, 108, 117, 101>>

\* "getDeclarationsForAllEmployees", 30 characters
LIT_Long == <<103, 101, 116, 68, 101, 99, 108, 97, 114, 97, 116, 105, 111, 110, 115, 70, 111, 114, 65, 108, 108, 69, 109, 112, 108, 111, 121, 101, 101, 115>>

\* "com.bodet.OtherService"
LIT_OtherService == <<99, 111, 109, 46, 98, 111, 100, 101, 116, 46, 79, 116, 104, 101, 114, 83, 101, 114, 118, 105, 99, 101>>

\* texts of method candidates: literals with the prefix "set", of 30
\* characters, with a backslash before the closing quote ("a\"), a second
\* service of the vendor package, the method and the service of the
\* scenario, and a quote without a partner
VerbPieces ==
  {Quoted(LIT_Set), Quoted(LIT_Long), Quoted(<<97, 92>>),
   Quoted(LIT_OtherService), Quoted(LIT_Method), Quoted(LIT_Service),
   <<QUOTE>>}

ExtractTexts ==
  {JoinPieces(ps) : ps \in SeqsUpTo(Pieces, MaxPieces)}
    \cup {JoinPieces(ps) : ps \in SeqsUpTo(ClassPieces, MaxClassPieces)}
    \cup {JoinPieces(ps) : ps \in SeqsUpTo(VerbPieces, MaxVerbPieces)}

\* both extractors are handed the same decoded texts
HarTexts == ExtractTexts

\* analyze_decoded.extract_gwt_info(t)
CallExtract(t) ==
  /\ pc = "idle"
  /\ pc' = "extract"
  /\ data' = Str(t)
  /\ info' = extract_gwt_info(t)
  /\ keys' = NoKeys /\ out' = NoOutput /\ msg' = NoMessage
  /\ detected' = FALSE /\ report' = NoReport
  /\ UNCHANGED <<rng, found>>
  /\ UNCHANGED bridge

\* har_analyzer.extract_gwt_info(t)
CallHarExtract(t) ==
  /\ pc = "idle"
  /\ pc' = "har_extract"
  /\ data' = Str(t)
  /\ found' = har_extract_gwt_info(t)
  /\ keys' = NoKeys /\ out' = NoOutput /\ msg' = NoMessage
  /\ detected' = FALSE /\ report' = NoReport
  /\ UNCHANGED <<rng, info>>
  /\ UNCHANGED bridge

ExtractCall == pc = "idle" /\ \E t \in ExtractTexts : CallExtract(t)

HarExtractCall == pc = "idle" /\ \E t \in HarTexts : CallHarExtract(t)

NextExtract ==
  \/ ExtractCall
  \/ HarExtractCall
  \/ Return

\* a caller that hands decoded texts to the extractor
SpecExtract == Init /\ [][NextExtract]_vars

\* ------------------------------------------------ curl_proxy.py: steps
codec == <<pc, data, keys, out, msg, detected, report, rng, info, found>>

\* execute_request(method, url, headers, cookies, body, body_base64,
\* impersonate, use_global_session), by the parameters its steps depend on
Request(method, cookies, body_base64, use_global_session) ==
  [method |-> method, cookies |-> cookies, body_base64 |-> body_base64,
   use_global_session |-> use_global_session]

\* what handle_request passes on from the JSON body (lines 151-161): a plain
\* POST, one with cookies, one whose method is null, and bodies in base64
ServerRequests ==
  {Request(PyStr("POST"), PyNone, PyNone, TRUE),
   Request(PyStr("POST"), PyStr("sid=0"), PyNone, TRUE),
   Request(PyNone, PyNone, PyNone, TRUE),
   Request(PyStr("POST"), PyNone, PyStr("dGVzdA=="), TRUE),
   Request(PyStr("POST"), PyNone, PyStr("abc"), TRUE),
   Request(PyStr("POST"), PyNone, PyStr("/w=="), TRUE),
   Request(PyStr("POST"), PyNone, PyInt("5"), TRUE)}

\* calls without the global session (main, lines 234-242, and direct calls)
DirectRequests ==
  {Request(PyStr("POST"), PyNone, PyNone, FALSE),
   Request(PyStr("POST"), PyStr("sid=1"), PyNone, FALSE),
   Request(PyStr("POST"), PyInt("5"), PyNone, FALSE),
   Request(PyNone, PyNone, PyNone, FALSE),
   Request(PyStr("POST"), PyNone, PyStr("abc"), FALSE)}

\* an exception e raised inside the try block of caller c ends the call:
\* the except clause turns it into the error dict, or it leaves the function
Finish(c, f, e) ==
  /\ tpc' = [tpc EXCEPT ![c] = "done"]
  /\ frame' = [frame EXCEPT ![c] =
                 Frame(PyNone, f.use_global_session, 0, NoResponse, e)]
  /\ result' = [result EXCEPT ![c] =
                  IF ExceptException(e) THEN Returns(error_result(e))
                  ELSE Propagates(e)]

\* lines 57-77 up to the session: the body is decoded; without the global
\* session a new session is made and the cookies parameter is split into it
\* (cookies.split on a value that is not a str is an AttributeError)
Enter(c, r) ==
  LET decoded == IF IsTrue(r.body_base64) THEN b64_utf8(r.body_base64)
                 ELSE Returns(PyNone)
      f == Frame(r.method, r.use_global_session, 0, NoResponse, "none")
  IN  IF decoded.raised # "none"
        THEN Finish(c, f, decoded.raised)
      ELSE IF r.use_global_session
        THEN /\ tpc' = [tpc EXCEPT ![c] = "check"]
             /\ frame' = [frame EXCEPT ![c] = f]
             /\ UNCHANGED result
      ELSE IF IsTrue(r.cookies) /\ r.cookies.type # "str"
        THEN Finish(c, f, "AttributeError")
      ELSE /\ tpc' = [tpc EXCEPT ![c] = "request"]
           /\ frame' = [frame EXCEPT ![c] = [f EXCEPT !.session = LOCAL_SESSION]]
           /\ UNCHANGED result

\* main() with --server: run_server starts the threaded server (line 176)
StartServer ==
  /\ mode = "init"
  /\ mode' = "server"
  /\ UNCHANGED <<global_session, sessions, jar, tpc, frame, result>>
  /\ UNCHANGED codec

\* main() without --server, or a direct call: one call of execute_request
\* with use_global_session=False
DirectCall(r) ==
  /\ mode = "init"
  /\ mode' = "cli"
  /\ Enter(0, r)
  /\ UNCHANGED <<global_session, sessions, jar>>
  /\ UNCHANGED codec

\* a handler thread of the server takes a POST /request (lines 149-161)
HandleRequest(t, r) ==
  /\ mode = "server"
  /\ tpc[t] = "idle"
  /\ Enter(t, r)
  /\ UNCHANGED <<mode, global_session, sessions, jar>>
  /\ UNCHANGED codec

\* get_or_create_session, line 50: if _global_session is None
CheckSession(t) ==
  /\ tpc[t] = "check"
  /\ tpc' = [tpc EXCEPT ![t] = IF global_session = 0 THEN "create" ELSE "return"]
  /\ UNCHANGED <<mode, global_session, sessions, jar, frame, result>>
  /\ UNCHANGED codec

\* line 51, right-hand side: requests.Session()
CreateSession(t) ==
  /\ tpc[t] = "create"
  /\ sessions' = sessions + 1
  /\ frame' = [frame EXCEPT ![t].session = sessions + 1]
  /\ tpc' = [tpc EXCEPT ![t] = "store"]
  /\ UNCHANGED <<mode, global_session, jar, result>>
  /\ UNCHANGED codec

\* line 51, the assignment to _global_session
StoreSession(t) ==
  /\ tpc[t] = "store"
  /\ global_session' = frame[t].session
  /\ frame' = [frame EXCEPT ![t].session = 0]
  /\ tpc' = [tpc EXCEPT ![t] = "return"]
  /\ UNCHANGED <<mode, sessions, jar, result>>
  /\ UNCHANGED codec

\* line 52: return _global_session, which line 64 binds to session
ReturnSession(t) ==
  /\ tpc[t] = "return"
  /\ frame' = [frame EXCEPT ![t].session = global_session]
  /\ tpc' = [tpc EXCEPT ![t] = "request"]
  /\ UNCHANGED <<mode, global_session, sessions, jar, result>>
  /\ UNCHANGED codec

\* lines 79-88, the request fails: method.upper() on None, or the transfer
\* (connection, TLS, timeout)
RequestFails(c) ==
  /\ tpc[c] = "request"
  /\ Finish(c, frame[c], IF frame[c].method.type # "str"
                           THEN "AttributeError" ELSE "RequestsError")
  /\ UNCHANGED <<mode, global_session, sessions, jar>>
  /\ UNCHANGED codec

\* lines 79-88, the remote side answers; the session keeps the cookies
RequestAnswered(c, response) ==
  /\ tpc[c] = "request"
  /\ frame[c].method.type = "str"
  /\ frame' = [frame EXCEPT ![c].response = response, ![c].method = PyNone]
  /\ jar' = IF response.cookies # {} THEN jar \cup {frame[c].session} ELSE jar
  /\ tpc' = [tpc EXCEPT ![c] = "build"]
  /\ UNCHANGED <<mode, global_session, sessions, result>>
  /\ UNCHANGED codec

\* lines 90-123: the result dict; failed: the cookie block raised
BuildResult(c, failed) ==
  /\ tpc[c] = "build"
  /\ LET f == frame[c]
         session_cookies ==
           IF f.use_global_session /\ f.session \in jar
             THEN {"sid"} ELSE {}
     IN  result' = [result EXCEPT ![c] =
           Returns(ok_result(f.response,
                     with_cookies(f.response.headers, f.response.cookies,
                                  session_cookies, failed)))]
  /\ tpc' = [tpc EXCEPT ![c] = "done"]
  /\ frame' = [frame EXCEPT ![c].session = 0]
  /\ UNCHANGED <<mode, global_session, sessions, jar>>
  /\ UNCHANGED codec

\* line 162: the handler answers with jsonify(result) and its thread ends
Respond(t) ==
  /\ t \in Handlers
  /\ tpc[t] = "done"
  /\ tpc' = [tpc EXCEPT ![t] = "idle"]
  /\ frame' = [frame EXCEPT ![t] = NoFrame]
  /\ result' = [result EXCEPT ![t] = NoResult]
  /\ UNCHANGED <<mode, global_session, sessions, jar>>
  /\ UNCHANGED codec

DirectCallStep == \E r \in DirectRequests : DirectCall(r)

HandleRequestStep == \E t \in Handlers, r \in ServerRequests : HandleRequest(t, r)

CheckSessionStep == \E t \in Handlers : CheckSession(t)

CreateSessionStep == \E t \in Handlers : CreateSession(t)

StoreSessionStep == \E t \in Handlers : StoreSession(t)

ReturnSessionStep == \E t \in Handlers : ReturnSession(t)

RequestFailsStep == \E c \in Callers : RequestFails(c)

RequestAnsweredStep ==
  \E c \in Callers, response \in Responses : RequestAnswered(c, response)

BuildResultStep == \E c \in Callers, failed \in BOOLEAN : BuildResult(c, failed)

RespondStep == \E t \in Handlers : Respond(t)

NextBridge ==
  \/ StartServer
  \/ DirectCallStep
  \/ HandleRequestStep
  \/ CheckSessionStep
  \/ CreateSessionStep
  \/ StoreSessionStep
  \/ ReturnSessionStep
  \/ RequestFailsStep
  \/ RequestAnsweredStep
  \/ BuildResultStep
  \/ RespondStep

\* the replay bridge: a server with its handler threads, or one direct call
SpecBridge == Init /\ [][NextBridge]_vars

\* ================================================================== claims
Units16(u) == \A i \in 1..Len(u) : u[i] >= 0 /\ u[i] <= MASK

\* the largest key count one 16-bit count unit can carry: 48 + N <= 65535
MaxKeyCount == MASK - 48

\* key i (0-based) survives its header unit: 0 <= 48 + key + (i mod 11) <= 65535
KeysFitHeader(k) ==
  \A i \in 1..Len(k) :
    48 + k[i] + ((i - 1) % 11) >= 0 /\ 48 + k[i] + ((i - 1) % 11) <= MASK

\* r is x reduced modulo 65536 with floor semantics
IsMod16(r, x) == r >= 0 /\ r <= MASK /\ (r - x) % (MASK + 1) = 0

RoundTripCase ==
  pc = "roundtrip" /\ Len(keys.list) >= 1 /\ Units16(data.units)

\* C1 as stated: for every key list of length >= 1 and every input of 16-bit
\* code units, decode(encode(input, keys)).decoded == input.
C1_RoundTripDecoded_AsStated ==
  RoundTripCase => msg.fault = "none" /\ msg.decoded = data

\* C1 amended: for every key list of length 1..65487 (the count unit
\* 48 + N must fit in 16 bits) and every input of 16-bit code units,
\* decode(encode(input, keys)).decoded == input.
C1_RoundTripDecoded ==
  RoundTripCase /\ Len(keys.list) <= MaxKeyCount
    => msg.fault = "none" /\ msg.decoded = data

\* a round trip of a non-empty input whose last unit is 65535, under a key
\* that does not fit its header unit, returns the input
C1_Witness ==
  /\ RoundTripCase
  /\ Len(data.units) = MaxPlain
  /\ data.units[MaxPlain] = MASK
  /\ ~KeysFitHeader(keys.list)
  /\ msg.fault = "none"
  /\ msg.decoded = data

\* C2 as stated: for every key list of length >= 1 of unrestricted integers
\* and every input of 16-bit code units, decode(encode(input, keys)).keys
\* == keys.
C2_RoundTripKeys_AsStated ==
  RoundTripCase => msg.fault = "none" /\ msg.keys = keys.list

\* C2 amended: for every non-empty input of 16-bit code units and every key
\* list of length 1..65487 whose keys satisfy
\* 0 <= 48 + keys[i] + (i mod 11) <= 65535, decode(encode(input, keys)).keys
\* == keys.
C2_RoundTripKeys ==
  /\ RoundTripCase
  /\ Len(data.units) > 0
  /\ Len(keys.list) <= MaxKeyCount
  /\ KeysFitHeader(keys.list)
  => msg.fault = "none" /\ msg.keys = keys.list

\* a round trip under two keys at the ends of the range returns the keys
C2_Witness ==
  /\ RoundTripCase
  /\ Len(data.units) > 0
  /\ keys.list = <<65487, -49>>
  /\ msg.fault = "none"
  /\ msg.keys = keys.list

\* C3: is_bwp(s) is true iff s is non-empty and its first element is 164
\* (first code point of a text, first octet of a bytes); false for the empty
\* input of either representation.
C3_Detection ==
  pc = "is_bwp" =>
    /\ (data.units = <<>> => ~detected)
    /\ (detected <=> (data.units # <<>> /\ Head(data.units) = 164))

\* is_bwp answered true for a bytes input
C3_Witness ==
  pc = "is_bwp" /\ data.kind = "bytes" /\ Len(data.units) > 1 /\ detected

PassThrough(m, s) ==
  /\ m.fault = "none"
  /\ m.is_encoded = FALSE
  /\ m.keys = <<>>
  /\ m.header_length = 0
  /\ m.decoded = s

\* C4 as stated: for every input s, text or bytes, with is_bwp(s) false,
\* decode(s) returns without error is_encoded == false, keys == [],
\* header_length == 0 and decoded == s.
C4_PassThrough_AsStated ==
  pc = "decode" /\ ~is_bwp(data) => PassThrough(msg, data)

\* C4 amended: for every text input s with is_bwp(s) false, decode(s) returns
\* without error is_encoded == false, keys == [], header_length == 0 and
\* decoded == s.  For a bytes input s, decode works on the text
\* t = s.decode("utf-8", errors="replace"): when t is empty or does not start
\* with code point 164 it returns that message with raw == decoded == t (a
\* text, never the bytes s), and otherwise it treats t as encoded, whatever
\* is_bwp(s) says.
C4_PassThrough ==
  pc = "decode" =>
    /\ (data.kind = "str" /\ ~is_bwp(data) => PassThrough(msg, data))
    /\ (data.kind = "bytes" =>
          LET t == utf8_decode(data.units) IN
          IF t = <<>> \/ Head(t) # 164
            THEN PassThrough(msg, Str(t)) /\ msg.raw = Str(t)
            ELSE msg.fault # "none" \/ msg.is_encoded)

\* decode passes through a bytes input that is_bwp accepts
C4_Witness ==
  /\ pc = "decode"
  /\ data.kind = "bytes"
  /\ is_bwp(data)
  /\ Len(data.units) > 1
  /\ PassThrough(msg, msg.raw)

\* C5: for every message decode returns for a marker-led input, with
\* body = raw[header_length:], header_length + len(body) == len(raw) and
\* len(decoded) == len(body).
C5_LengthInvariant ==
  pc \in {"decode", "roundtrip"} /\ msg.fault = "none" /\ msg.is_encoded =>
    LET body == SliceFrom(msg.raw.units, msg.header_length) IN
    /\ msg.header_length + Len(body) = Len(msg.raw.units)
    /\ Len(msg.decoded.units) = Len(body)

\* decode returned a marker-led message with keys and a body
C5_Witness ==
  /\ pc = "decode"
  /\ msg.fault = "none"
  /\ msg.is_encoded
  /\ Len(msg.keys) = 1
  /\ Len(msg.decoded.units) = 1
  /\ Len(msg.raw.units) = 4

\* C6: for every message decode returns on a text input, is_encoded is true
\* iff raw is non-empty and starts with 164; header_length == 2 + len(keys)
\* when is_encoded, and header_length == 0 with keys == [] otherwise.
C6_MessageShape ==
  pc = "decode" /\ data.kind = "str" /\ msg.fault = "none" =>
    /\ msg.is_encoded <=> (msg.raw.units # <<>> /\ Head(msg.raw.units) = 164)
    /\ msg.is_encoded => msg.header_length = 2 + Len(msg.keys)
    /\ ~msg.is_encoded => msg.header_length = 0 /\ msg.keys = <<>>

\* decode returned an encoded message with two keys for a text input
C6_Witness ==
  /\ pc = "decode"
  /\ data.kind = "str"
  /\ msg.fault = "none"
  /\ msg.is_encoded
  /\ Len(msg.keys) = 2
  /\ msg.header_length = 4

\* C7: for a marker-led text with N = code(input[1]) - 48 >= 1 and length
\* >= 2 + N, decode returns keys[i] = code(input[2+i]) - 48 - (i mod 11) and
\* decoded[i] = (code(body[i]) - keys[i mod N] + (i mod 17)) mod 65536 with
\* body = input[2+N:]; marker, chr(49), chr(48), "test" gives keys [0],
\* header_length 3 and decoded "tfuw".
C7_DecodeFormula ==
  pc = "decode" /\ data.kind = "str" /\ is_bwp(data) /\ Len(data.units) >= 2 =>
    LET u == data.units
        N == u[2] - 48
    IN  N >= 1 /\ Len(u) >= 2 + N =>
          /\ msg.fault = "none"
          /\ Len(msg.keys) = N
          /\ \A i \in 0..(N - 1) : msg.keys[i + 1] = u[2 + i + 1] - 48 - (i % 11)
          /\ Len(msg.decoded.units) = Len(u) - 2 - N
          /\ \A i \in 0..(Len(u) - 2 - N - 1) :
               IsMod16(msg.decoded.units[i + 1],
                       u[2 + N + i + 1] - msg.keys[(i % N) + 1] + (i % 17))
          /\ (u = <<164, 49, 48, 116, 101, 115, 116>> =>
                /\ msg.keys = <<0>>
                /\ msg.header_length = 3
                /\ msg.decoded.units = <<116, 102, 117, 119>>)

\* decode of the long message: more than 11 keys and more than 17 body units
C7_Witness ==
  /\ pc = "decode"
  /\ data.kind = "str"
  /\ is_bwp(data)
  /\ msg.fault = "none"
  /\ Len(msg.keys) > 11
  /\ Len(msg.decoded.units) > 17

WireFormat(o, d, k) ==
  LET N == Len(k) IN
  /\ Len(o) = 2 + N + Len(d)
  /\ o[1] = 164
  /\ IsMod16(o[2], 48 + N)
  /\ \A i \in 0..(N - 1) : IsMod16(o[2 + i + 1], 48 + k[i + 1] + (i % 11))
  /\ \A i \in 0..(Len(d) - 1) :
       IsMod16(o[2 + N + i + 1], d[i + 1] + k[(i % N) + 1] - (i % 17))

EncodeCase ==
  /\ pc \in {"encode", "roundtrip"}
  /\ Len(data.units) > 0
  /\ Len(keys.list) >= 1

\* C8 as stated: for every non-empty input and key list of length N >= 1 the
\* output has 2 + N + len(input) units in the wire format, is_bwp of the
\* output is true and decode reports is_encoded == true.
C8_WireFormat_AsStated ==
  EncodeCase =>
    /\ out.fault = "none"
    /\ WireFormat(out.value.units, data.units, keys.list)
    /\ is_bwp(out.value)
    /\ pc = "roundtrip" => msg.fault = "none" /\ msg.is_encoded

\* C8 amended: the wire format and is_bwp of the output hold for every
\* non-empty input and key list of length N >= 1; decode of the output
\* reports is_encoded == true when N <= 65487 (for N = 65488 the count unit
\* wraps to 0 and decode faults).
C8_WireFormat ==
  EncodeCase =>
    /\ out.fault = "none"
    /\ WireFormat(out.value.units, data.units, keys.list)
    /\ is_bwp(out.value)
    /\ pc = "roundtrip" /\ Len(keys.list) <= MaxKeyCount
         => msg.fault = "none" /\ msg.is_encoded

\* an output whose key units wrap at both ends, decoded as encoded
C8_Witness ==
  /\ EncodeCase
  /\ pc = "roundtrip"
  /\ keys.list = <<-49, 65488>>
  /\ Len(out.value.units) = 2 + 2 + MaxPlain
  /\ msg.fault = "none"
  /\ msg.is_encoded

\* s is marker, count unit for N >= 1, N key units, body
WellFormed(u) ==
  Len(u) >= 2 /\ u[1] = 164 /\ u[2] - 48 >= 1 /\ Len(u) >= 2 + (u[2] - 48)

ReEncodeCase == pc = "reencode" /\ WellFormed(data.units)

\* C9 as stated: for every well-formed encoded message s,
\* encode(decode(s).decoded, decode(s).keys) == s.
C9_ReEncode_AsStated ==
  ReEncodeCase => out.fault = "none" /\ out.value = data

\* C9 amended: for every well-formed encoded message s of 16-bit code units
\* whose body is not empty, encode(decode(s).decoded, decode(s).keys) == s
\* (with an empty body encode returns the empty text).
C9_ReEncode ==
  /\ ReEncodeCase
  /\ Units16(data.units)
  /\ Len(data.units) > 2 + (data.units[2] - 48)
  => out.fault = "none" /\ out.value = data

\* the long message is reproduced
C9_Witness ==
  /\ ReEncodeCase
  /\ Len(msg.keys) > 11
  /\ Len(msg.decoded.units) > 17
  /\ out.value = data

\* C10: analyze never raises, for text or bytes, whatever the header; when
\* decoding the marker-led input faults the report has decode_success ==
\* false and a decode_error message.
C10_AnalyzeNeverRaises ==
  pc = "analyze" =>
    /\ report.raised = "none"
    /\ "is_bwp" \in DOMAIN report.fields
    /\ LET text == as_text(data) IN
       is_bwp(text) /\ decode(text).fault # "none" =>
         /\ "decode_success" \in DOMAIN report.fields
         /\ report.fields.decode_success = FALSE
         /\ "decode_error" \in DOMAIN report.fields

\* analyze reported a decode failure for a declared key count of zero
C10_Witness ==
  /\ pc = "analyze"
  /\ Len(data.units) > 2
  /\ data.units[2] = 48
  /\ report.raised = "none"
  /\ "decode_error" \in DOMAIN report.fields
  /\ report.fields.decode_success = FALSE

\* s is a marker-led text whose header reaches beyond its end: the marker
\* alone, or a declared key count N with 2 + N > len(s)
HeaderBeyondInput(u) ==
  /\ Len(u) >= 1
  /\ u[1] = 164
  /\ (Len(u) = 1 \/ 2 + (u[2] - 48) > Len(u))

\* C11 as stated: decode of a marker-led input whose declared key count
\* reaches beyond the input (marker, chr(48 + 5), "ab"; the marker alone)
\* yields a MalformedHeader error and not an out-of-range fault.
C11_MalformedHeader ==
  pc = "decode" /\ data.kind = "str" /\ HeaderBeyondInput(data.units) =>
    msg.fault = "MalformedHeader"

\* C12 as stated: decode of a marker-led input whose declared key count is 0
\* while the body after the 2-unit header is not empty yields an EmptyKeySet
\* error, not a division or indexing fault.
C12_EmptyKeySet ==
  /\ pc = "decode"
  /\ data.kind = "str"
  /\ Len(data.units) > 2
  /\ data.units[1] = 164
  /\ data.units[2] = 48
  => msg.fault = "EmptyKeySet"

\* C13 as stated: encode of a non-empty input with a supplied empty key list
\* fails with an InvalidKeyList error and produces no output.
C13_InvalidKeyList ==
  pc = "encode" /\ Len(data.units) > 0 /\ keys.given /\ keys.list = <<>> =>
    out.fault = "InvalidKeyList"

\* C14: encode returns an empty input unchanged, with no marker and no
\* header, whether the keys are omitted, empty or non-empty.
C14_EncodeEmpty ==
  pc = "encode" /\ Len(data.units) = 0 =>
    /\ out.fault = "none"
    /\ out.value = data
    /\ Len(out.value.units) = 0

\* encode returned the empty input with the keys omitted, after an earlier
\* call had synthesized keys
C14_Witness ==
  /\ pc = "encode"
  /\ Len(data.units) = 0
  /\ ~keys.given
  /\ rng > 0
  /\ out = Returned(data)

\* C15: for every well-formed encoded message s, analyze(s) reports
\* decode_success == true, key_count == len(keys) > 0, body_length +
\* header_length == len(s) and decoded_length == body_length.
C15_AnalyzeConsistency ==
  pc = "analyze" /\ data.kind = "str" /\ WellFormed(data.units) =>
    /\ report.raised = "none"
    /\ {"decode_success", "key_count", "keys", "header_length", "body_length",
        "decoded_length"} \subseteq DOMAIN report.fields
    /\ report.fields.decode_success = TRUE
    /\ report.fields.key_count = Len(report.fields.keys)
    /\ report.fields.key_count > 0
    /\ report.fields.body_length + report.fields.header_length = Len(data.units)
    /\ report.fields.decoded_length = report.fields.body_length

\* analyze of the long message succeeded
C15_Witness ==
  /\ pc = "analyze"
  /\ data.kind = "str"
  /\ WellFormed(data.units)
  /\ report.fields.decode_success = TRUE
  /\ report.fields.key_count > 11
  /\ report.fields.decoded_length > 17

\* C16 as stated: for every input, encoded or not, the report of analyze
\* contains the detection result and a success flag (decode_success).
C16_ReportFlags_AsStated ==
  pc = "analyze" =>
    /\ report.raised = "none"
    /\ "is_bwp" \in DOMAIN report.fields
    /\ "decode_success" \in DOMAIN report.fields

\* C16 amended: for every input the report of analyze contains the detection
\* result is_bwp and the length; it contains decode_success exactly when
\* is_bwp is true (for an input that is not marker-led the report has no
\* success flag).
C16_ReportFlags ==
  pc = "analyze" =>
    /\ report.raised = "none"
    /\ "is_bwp" \in DOMAIN report.fields
    /\ "length" \in DOMAIN report.fields
    /\ "decode_success" \in DOMAIN report.fields <=> report.fields.is_bwp

\* analyze of a non-empty text without the marker: no success flag
C16_Witness ==
  /\ pc = "analyze"
  /\ data.kind = "str"
  /\ Len(data.units) = MaxLen
  /\ report.raised = "none"
  /\ report.fields.is_bwp = FALSE
  /\ "decode_success" \notin DOMAIN report.fields

SynthCase == pc = "roundtrip" /\ ~keys.given /\ Len(data.units) > 0

SynthKeysInRange ==
  LET N == out.value.units[2] - 48 IN
  /\ N >= 4 /\ N <= 37
  /\ msg.fault = "none"
  /\ Len(msg.keys) = N
  /\ \A i \in 1..N : msg.keys[i] >= 0 /\ msg.keys[i] <= 14

\* C17 as stated: encode of a non-empty input without keys declares a key
\* count N with 4 <= N <= 37, every key decode recovers lies in 0..14, and
\* decode of the output returns the original input.
C17_KeySynthesis_AsStated ==
  SynthCase => SynthKeysInRange /\ msg.decoded = data

\* C17 amended: encode of a non-empty input without keys declares a key
\* count N with 4 <= N <= 37 and every key decode recovers lies in 0..14; when
\* the input consists of 16-bit code units (code points up to 65535), decode
\* of the output returns the original input.
C17_KeySynthesis ==
  SynthCase =>
    /\ SynthKeysInRange
    /\ Units16(data.units) => msg.decoded = data

\* 37 keys of value 14 were synthesized for the long text and it came back
C17_Witness ==
  /\ SynthCase
  /\ Len(data.units) > 17
  /\ Len(msg.keys) = 37
  /\ msg.keys[37] = 14
  /\ msg.decoded = data

\* C18 as stated: no call of encode, with keys supplied or omitted, changes
\* the state of the process-wide random generator.
C18_NoGlobalRandom == [][pc' = "encode" => rng' = rng]_vars

\* membership in a Python list
InList(x, list) == \E i \in 1..Len(list) : list[i] = x

\* the text holds the three literals of the scenario
ScenarioCase ==
  /\ pc = "extract"
  /\ InList(LIT_Service, info.all_strings)
  /\ InList(LIT_Method, info.all_strings)
  /\ InList(LIT_Date, info.all_strings)

\* C20 as stated: for decoded text containing the literals
\* "com.bodet.time.DeclarationService", "getDeclaration" and "2024-01-01",
\* service is the first, method the second, and the date-related list
\* contains "2024-01-01".
C20_ExtractorScenario_AsStated ==
  ScenarioCase =>
    /\ "service" \in info.has /\ info.service = LIT_Service
    /\ "method" \in info.has /\ info.method = LIT_Method
    /\ "date_related" \in info.has /\ InList(LIT_Date, info.date_related)

\* no literal before the first occurrence of target passes test
FirstToPass(target, list, test(_)) ==
  \E i \in 1..Len(list) :
    list[i] = target /\ \A j \in 1..(i - 1) : ~test(list[j])

\* C20 amended: for decoded text containing the three literals, service ==
\* "com.bodet.time.DeclarationService" when no earlier literal contains
\* "Service", and method == "getDeclaration" when no earlier literal starts
\* with a verb prefix; the date-related list contains the service literal
\* (it contains the keyword "time") and does not contain "2024-01-01", which
\* contains none of the keywords date, jour, heure, time, period.
C20_ExtractorScenario ==
  ScenarioCase =>
    /\ "service" \in info.has
    /\ FirstToPass(LIT_Service, info.all_strings, LAMBDA l : Contains(l, STR_Service))
         => info.service = LIT_Service
    /\ "method" \in info.has
    /\ FirstToPass(LIT_Method, info.all_strings,
                   LAMBDA l : \E q \in MethodPrefixes : StartsWith(l, q))
         => info.method = LIT_Method
    /\ "date_related" \in info.has
    /\ InList(LIT_Service, info.date_related)
    /\ ~InList(LIT_Date, info.date_related)

\* the three literals in the order date, method, service
C20_Witness ==
  /\ ScenarioCase
  /\ info.all_strings = <<LIT_Date, LIT_Method, LIT_Service>>
  /\ info.service = LIT_Service
  /\ info.method = LIT_Method
  /\ info.date_related = <<LIT_Service>>

\* the keys a dict of analyze_decoded.extract_gwt_info can have
InfoKeys == {"service", "method", "classes", "date_related", "all_strings"}

\* the number of quote characters of a text
QuoteCount(t) == Cardinality({i \in 1..Len(t) : t[i] = QUOTE})

\* some literal of the list passes the test
AnyPasses(list, test(_)) == \E i \in 1..Len(list) : test(list[i])

\* C21: the extractor never fails: for every text (empty, without quotes,
\* with an odd number of quotes, with empty literals) both extract_gwt_info
\* functions return a result; a field with no matching literal is absent
\* (analyze_decoded: no key, har_analyzer: None) or empty, never an error.
C21_ExtractorNeverFails ==
  /\ pc = "extract" =>
       /\ info.raised = "none"
       /\ info.has \subseteq InfoKeys
       /\ \A k \in InfoKeys \ info.has : info[k] = <<>>
       /\ ~AnyPasses(info.all_strings, LAMBDA l : Contains(l, STR_Service))
            => "service" \notin info.has
       /\ ~AnyPasses(info.all_strings,
                     LAMBDA l : \E q \in MethodPrefixes : StartsWith(l, q))
            => "method" \notin info.has
       /\ ~AnyPasses(info.all_strings, LAMBDA l : StartsWith(l, STR_com_bodet))
            => "classes" \notin info.has
       /\ ~AnyPasses(info.all_strings,
                     LAMBDA l : \E x \in DateKeywords : Contains(Lower(l), x))
            => "date_related" \notin info.has
  /\ pc = "har_extract" =>
       LET strings == findall_quoted(data.units, 1) IN
       /\ found.service.some => InList(found.service.value, strings)
       /\ found.method.some => InList(found.method.value, strings)
       /\ ~AnyPasses(strings, LAMBDA l : Contains(l, STR_Service))
            => found.service = None
       /\ ~AnyPasses(strings,
                     LAMBDA l : \E q \in HarMethodPrefixes : StartsWith(l, q))
            => found.method = None

\* a text with three quotes, whose one literal is empty: no field but
\* all_strings
C21_Witness ==
  /\ pc = "extract"
  /\ QuoteCount(data.units) = 3
  /\ info.raised = "none"
  /\ info.all_strings = << <<>> >>
  /\ info.has = {"all_strings"}

\* C22 as stated: in har_analyzer.extract_gwt_info the first match wins: the
\* service is the first literal that contains "Service" and starts with
\* "com.bodet", the method is the first literal shorter than 30 characters,
\* not starting with "com." or "java.", that starts with a verb prefix;
\* later qualifying literals do not change the result.
C22_HarFirstMatchWins ==
  pc = "har_extract" =>
    LET strings == findall_quoted(data.units, 1) IN
    \A i \in 1..Len(strings) :
      /\ FirstToPass(strings[i], strings,
                     LAMBDA l : Contains(l, STR_Service)
                                  /\ StartsWith(l, STR_com_bodet))
           /\ Contains(strings[i], STR_Service)
           /\ StartsWith(strings[i], STR_com_bodet)
           => found.service = Some(strings[i])
      /\ FirstToPass(strings[i], strings, IsHarMethod) /\ IsHarMethod(strings[i])
           => found.method = Some(strings[i])

\* the verb prefixes of the claim: those of the source and "set"
ClaimedMethodPrefixes == MethodPrefixes \cup {<<115, 101, 116>>}

\* a method by the rule of the claim
ClaimedMethod(l) ==
  /\ Len(l) < 30
  /\ ~StartsWith(l, STR_com)
  /\ ~StartsWith(l, STR_java)
  /\ \E q \in ClaimedMethodPrefixes : StartsWith(l, q)

\* C23 as stated: in analyze_decoded.extract_gwt_info the method is the first
\* literal that is shorter than 30 characters, is not prefixed by a
\* namespace root, and starts with one of the verb prefixes (get, set, load,
\* save, find, connect, subscribe, init, or a localized verb); method is
\* absent exactly when no literal qualifies.
C23_MethodRule ==
  pc = "extract" /\ data.units # <<>> =>
    /\ "method" \in info.has <=> AnyPasses(info.all_strings, ClaimedMethod)
    /\ "method" \in info.has
         => /\ ClaimedMethod(info.method)
            /\ FirstToPass(info.method, info.all_strings, ClaimedMethod)

\* C24: in analyze_decoded.extract_gwt_info the service is the first literal,
\* in order of appearance, that contains "Service"; service is absent
\* exactly when no literal contains it.
C24_ServiceRule ==
  pc = "extract" =>
    /\ "service" \in info.has
         <=> AnyPasses(info.all_strings, LAMBDA l : Contains(l, STR_Service))
    /\ "service" \in info.has
         => /\ Contains(info.service, STR_Service)
            /\ FirstToPass(info.service, info.all_strings,
                           LAMBDA l : Contains(l, STR_Service))

\* "loadOtherService" comes before the service of the vendor package
C24_Witness ==
  /\ pc = "extract"
  /\ "service" \in info.has
  /\ ~StartsWith(info.service, STR_com_bodet)
  /\ InList(LIT_Service, info.all_strings)

\* the positions of the quote characters of t, in order
QuotePositions(t) ==
  SelectSeq([i \in 1..Len(t) |-> i], LAMBDA i : t[i] = QUOTE)

\* what lies between positions a and b of t
Between(t, a, b) == [i \in 1..(b - a - 1) |-> t[a + i]]

\* C25: for non-empty text, all_strings is exactly the ordered sequence of
\* substrings between the 1st and 2nd, the 3rd and 4th, ... quote characters
\* (empty literals included, an unpaired final quote ignored, backslash not
\* special): a text with q quotes yields floor(q/2) literals.
C25_LiteralExtraction ==
  pc = "extract" /\ data.units # <<>> =>
    LET t == data.units
        q == QuotePositions(t)
    IN  /\ "all_strings" \in info.has
        /\ Len(info.all_strings) = Len(q) \div 2
        /\ \A k \in 1..Len(info.all_strings) :
             info.all_strings[k] = Between(t, q[2 * k - 1], q[2 * k])

\* three quotes, and a literal that ends with a backslash
C25_Witness ==
  /\ pc = "extract"
  /\ QuoteCount(data.units) = 3
  /\ info.all_strings = << <<97, 92>> >>

\* the positions of the class references among the literals
ClassPositions(list) ==
  SelectSeq([i \in 1..Len(list) |-> i],
            LAMBDA i : StartsWith(list[i], STR_com_bodet))

\* C26: classes holds, in order of appearance, the literals that start with
\* "com.bodet", limited to the first 5; it never has more than 5 entries and
\* every entry is an element of all_strings.
C26_ClassReferences ==
  pc = "extract" =>
    LET refs == ClassPositions(info.all_strings) IN
    /\ Len(info.classes) <= 5
    /\ Len(info.classes) = IF Len(refs) < 5 THEN Len(refs) ELSE 5
    /\ \A k \in 1..Len(info.classes) :
         /\ info.classes[k] = info.all_strings[refs[k]]
         /\ InList(info.classes[k], info.all_strings)
    /\ "classes" \in info.has <=> Len(refs) > 0

\* six class references in the text, five kept, the sixth differs
C26_Witness ==
  /\ pc = "extract"
  /\ Len(ClassPositions(info.all_strings)) = 6
  /\ Len(info.classes) = 5
  /\ info.all_strings[6] # info.all_strings[5]
  /\ info.classes[1] # info.classes[2]

\* decode was called on a text that starts with the marker
MarkedText ==
  pc = "decode" /\ data.kind = "str" /\ Len(data.units) > 0
    /\ data.units[1] = 164

\* C27: for a text s whose first code unit is 164, decode(s) returns a
\* message exactly when len(s) >= 2 and, with N = code(s[1]) - 48, either
\* N >= 1 and len(s) >= 2 + N, or N == 0 and len(s) == 2; otherwise it
\* faults, so a returned message has 2 <= header_length <= len(raw).
C27_DecodeReturns ==
  MarkedText =>
    LET s == data.units IN
    /\ msg.fault = "none"
         <=> /\ Len(s) >= 2
             /\ \/ s[2] - 48 >= 1 /\ Len(s) >= 2 + (s[2] - 48)
                \/ s[2] - 48 = 0 /\ Len(s) = 2
    /\ msg.fault = "none"
         => /\ msg.header_length >= 2
            /\ msg.header_length <= Len(msg.raw.units)

\* the marker and a count of zero, nothing else: decode returns
C27_Witness ==
  /\ MarkedText
  /\ data.units = <<164, 48>>
  /\ msg.fault = "none"
  /\ msg.header_length = 2
  /\ msg.decoded = Str(<<>>)

\* C28 as stated: for every input x, text or bytes,
\* analyze(x)["is_bwp"] == is_bwp(x) == decode(x).is_encoded whenever decode
\* returns.
C28_DetectionAgrees_AsStated ==
  /\ pc = "is_bwp" => detected = is_bwp(data)
  /\ pc = "analyze" /\ report.raised = "none"
       => report.fields.is_bwp = is_bwp(data)
  /\ pc = "decode" /\ msg.fault = "none" => msg.is_encoded = is_bwp(data)

\* C28 amended: for every text input x the three agree whenever decode
\* returns; for a bytes input x, analyze(x)["is_bwp"] and
\* decode(x).is_encoded agree with is_bwp(t), where t is
\* x.decode("utf-8", errors="replace"), and is_bwp(x) tests the first octet.
C28_DetectionAgrees ==
  /\ pc = "is_bwp" => detected = is_bwp(data)
  /\ pc = "analyze" /\ report.raised = "none"
       => report.fields.is_bwp = is_bwp(as_text(data))
  /\ pc = "decode" /\ msg.fault = "none"
       => msg.is_encoded = is_bwp(as_text(data))

\* bytes that are the UTF-8 form of a marker-led text: decode returns an
\* encoded message, is_bwp of the bytes is false
C28_Witness ==
  /\ pc = "decode"
  /\ data.kind = "bytes"
  /\ msg.fault = "none"
  /\ msg.is_encoded
  /\ ~is_bwp(data)

\* handler t has its session from get_or_create_session and has not yet
\* finished with it
HoldsSession(t) == tpc[t] \in {"request", "build"}

\* C29 as stated: in server mode at most one session is ever created in the
\* process, and every /request handler, concurrent ones included, obtains
\* the same _global_session from get_or_create_session.
C29_OneSharedSession ==
  mode = "server" =>
    /\ sessions <= 1
    /\ \A t \in Handlers, u \in Handlers :
         HoldsSession(t) /\ HoldsSession(u)
           => frame[t].session = frame[u].session

\* the call of caller c has ended
Ended(c) == tpc[c] = "done"

Without(headers, name) == {h \in headers : h[1] # name}

====
